---------------------------- MODULE Spec2Model ----------------------------
(***************************************************************************)
(* The `storage' service of WavesGUI (Storage.js): the storage adapter     *)
(* (read / write / clear over the browser store or the host bridge, with   *)
(* Storage.stringify and JSON.parse), the migration runner of the          *)
(* Storage constructor, and the steps of MIGRATION_MAP.                    *)
(*                                                                         *)
(* Texts (what the backend stores, what JSON.stringify returns) are        *)
(* sequences of lexemes: the JSON punctuation, the digits, the JSON        *)
(* keywords, and opaque chunks of ordinary characters ("address").         *)
(* JavaScript values are tagged records.                                   *)
(***************************************************************************)
EXTENDS Integers, Sequences, FiniteSets, TLC

(***************************************************************************)
(* JavaScript values                                                       *)
(***************************************************************************)
Undefined == [t |-> "undefined"]
Null == [t |-> "null"]
Bool(b) == [t |-> "bool", v |-> <<b>>]
Num(n) == [t |-> "num", v |-> <<n>>]
Str(s) == [t |-> "str", v |-> s]
Arr(xs) == [t |-> "arr", v |-> xs]
\* An object is the sequence of its own properties <<key, value>> in
\* insertion order; a key is a text.
Obj(ps) == [t |-> "obj", v |-> ps]

\* typeof data
typeof(x) ==
    CASE x.t = "undefined" -> "undefined"
      [] x.t = "bool" -> "boolean"
      [] x.t = "num" -> "number"
      [] x.t = "str" -> "string"
      [] OTHER -> "object"

\* ToBoolean(x): what `if (x)' and `!x' test
Truthy(x) ==
    CASE x.t = "undefined" -> FALSE
      [] x.t = "null" -> FALSE
      [] x.t = "bool" -> x.v[1]
      [] x.t = "num" -> x.v[1] # 0
      [] x.t = "str" -> x.v # <<>>
      [] OTHER -> TRUE

Digits == <<"0", "1", "2", "3", "4", "5", "6", "7", "8", "9">>
IsDigit(c) == \E d \in 1..10 : Digits[d] = c
DigitVal(c) == (CHOOSE d \in 1..10 : Digits[d] = c) - 1

RECURSIVE NatText(_)
NatText(n) == IF n < 10 THEN <<Digits[n + 1]>>
              ELSE NatText(n \div 10) \o <<Digits[(n % 10) + 1]>>

\* Number::toString of an integer
NumText(n) == IF n < 0 THEN <<"-">> \o NatText(-n) ELSE NatText(n)

(***************************************************************************)
(* JSON.stringify                                                          *)
(***************************************************************************)
RECURSIVE QuoteChars(_)
QuoteChars(s) ==
    IF s = <<>> THEN <<>>
    ELSE (IF Head(s) \in {"\"", "\\"} THEN <<"\\", Head(s)>> ELSE <<Head(s)>>)
         \o QuoteChars(Tail(s))

\* QuoteJSONString
Quote(s) == <<"\"">> \o QuoteChars(s) \o <<"\"">>

RECURSIVE JSONstringify(_),SerializeElems(_, _), SerializeProps(_, _)
\* JSON.stringify(x) of a value it can serialize; a property whose value is
\* undefined is left out, an undefined array element is written null.
JSONstringify(x) ==
    CASE x.t = "null" -> <<"null">>
      [] x.t = "bool" -> IF x.v[1] THEN <<"true">> ELSE <<"false">>
      [] x.t = "num" -> NumText(x.v[1])
      [] x.t = "str" -> Quote(x.v)
      [] x.t = "arr" -> <<"[">> \o SerializeElems(x.v, TRUE) \o <<"]">>
      [] x.t = "obj" -> <<"{">> \o SerializeProps(x.v, TRUE) \o <<"}">>

SerializeElems(xs, first) ==
    IF xs = <<>> THEN <<>>
    ELSE (IF first THEN <<>> ELSE <<",">>)
         \o (IF Head(xs).t = "undefined" THEN <<"null">>
             ELSE JSONstringify(Head(xs)))
         \o SerializeElems(Tail(xs), FALSE)

SerializeProps(ps, first) ==
    IF ps = <<>> THEN <<>>
    ELSE IF Head(ps)[2].t = "undefined" THEN SerializeProps(Tail(ps), first)
    ELSE (IF first THEN <<>> ELSE <<",">>)
         \o Quote(Head(ps)[1]) \o <<":">> \o JSONstringify(Head(ps)[2])
         \o SerializeProps(Tail(ps), FALSE)

(***************************************************************************)
(* JSON.parse                                                              *)
(***************************************************************************)
\* A parse result: the value read and the position after it, or a failure.
Fail == [ok |-> FALSE, val |-> Undefined, pos |-> 0]
Got(x, p) == [ok |-> TRUE, val |-> x, pos |-> p]

At(s, i) == IF i <= Len(s) THEN s[i] ELSE "<eof>"

RECURSIVE ScanDigits(_, _, _)
ScanDigits(s, i, acc) ==
    IF IsDigit(At(s, i)) THEN ScanDigits(s, i + 1, acc * 10 + DigitVal(s[i]))
    ELSE Got(acc, i)

\* F(e) with e evaluated once, before F's body reads it
Let(F(_), e) == CHOOSE y \in {F(x) : x \in {e}} : TRUE

\* JSONNumber (integers): -? ( 0 | [1-9][0-9]* )
ParseNumber(s, i) ==
    LET neg == At(s, i) = "-"
        j == IF neg THEN i + 1 ELSE i
    IN  IF ~IsDigit(At(s, j)) THEN Fail
        ELSE Let(LAMBDA d : Got(Num(IF neg THEN -d.val ELSE d.val), d.pos),
                 IF At(s, j) = "0" THEN Got(0, j + 1) ELSE ScanDigits(s, j, 0))

RECURSIVE ScanString(_, _, _)
\* The characters of a JSONString after its opening quote
ScanString(s, i, acc) ==
    IF i > Len(s) THEN Fail
    ELSE IF s[i] = "\"" THEN Got(acc, i + 1)
    ELSE IF s[i] = "\\"
         THEN IF At(s, i + 1) \in {"\"", "\\"}
              THEN ScanString(s, i + 2, Append(acc, s[i + 1]))
              ELSE Fail
    ELSE ScanString(s, i + 1, Append(acc, s[i]))

ParseString(s, i) ==
    Let(LAMBDA r : IF r.ok THEN Got(Str(r.val), r.pos) ELSE Fail,
        ScanString(s, i + 1, <<>>))

HasKey(ps, k) == \E i \in 1..Len(ps) : ps[i][1] = k

\* o[k] = x on the property list of o: an own property keeps its place
PutProp(ps, k, x) ==
    IF HasKey(ps, k)
    THEN [i \in 1..Len(ps) |-> IF ps[i][1] = k THEN <<k, x>> ELSE ps[i]]
    ELSE Append(ps, <<k, x>>)

RECURSIVE ParseValue(_, _), ParseElems(_, _, _), ParseMembers(_, _, _)
ParseValue(s, i) ==
    CASE At(s, i) = "null" -> Got(Null, i + 1)
      [] At(s, i) = "true" -> Got(Bool(TRUE), i + 1)
      [] At(s, i) = "false" -> Got(Bool(FALSE), i + 1)
      [] At(s, i) = "\"" -> ParseString(s, i)
      [] At(s, i) = "-" \/ IsDigit(At(s, i)) -> ParseNumber(s, i)
      [] At(s, i) = "[" ->
            IF At(s, i + 1) = "]" THEN Got(Arr(<<>>), i + 2)
            ELSE ParseElems(s, i + 1, <<>>)
      [] At(s, i) = "{" ->
            IF At(s, i + 1) = "}" THEN Got(Obj(<<>>), i + 2)
            ELSE ParseMembers(s, i + 1, <<>>)
      [] OTHER -> Fail

\* The elements of an array from position i on, acc those read so far
ParseElems(s, i, acc) ==
    Let(LAMBDA r :
            IF ~r.ok THEN Fail
            ELSE IF At(s, r.pos) = ","
                 THEN Let(LAMBDA a : ParseElems(s, r.pos + 1, a), Append(acc, r.val))
            ELSE IF At(s, r.pos) = "]" THEN Got(Arr(Append(acc, r.val)), r.pos + 1)
            ELSE Fail,
        ParseValue(s, i))

\* The value of a member whose key k has been read, and what follows it
ParseMember(s, k, acc) ==
    Let(LAMBDA r :
            IF ~r.ok THEN Fail
            ELSE IF At(s, r.pos) = ","
                 THEN Let(LAMBDA ps : ParseMembers(s, r.pos + 1, ps),
                          PutProp(acc, k.val.v, r.val))
            ELSE IF At(s, r.pos) = "}"
                 THEN Got(Obj(PutProp(acc, k.val.v, r.val)), r.pos + 1)
            ELSE Fail,
        ParseValue(s, k.pos + 1))

\* The members of an object from position i on; a repeated key keeps the
\* last value
ParseMembers(s, i, acc) ==
    IF At(s, i) # "\"" THEN Fail
    ELSE Let(LAMBDA k : IF ~k.ok \/ At(s, k.pos) # ":" THEN Fail
                        ELSE ParseMember(s, k, acc),
             ParseString(s, i))

\* JSON.parse(text): the value, or ok = FALSE for a SyntaxError
JSONparse(s) ==
    Let(LAMBDA r : IF r.ok /\ r.pos = Len(s) + 1 THEN r ELSE Fail,
        ParseValue(s, 1))

(***************************************************************************)
(* The storage adapter: Storage.stringify and the backends' read           *)
(***************************************************************************)
\* String(data) of a primitive
StringOf(x) ==
    CASE x.t = "undefined" -> <<"undefined">>
      [] x.t = "null" -> <<"null">>
      [] x.t = "bool" -> IF x.v[1] THEN <<"true">> ELSE <<"false">>
      [] x.t = "num" -> NumText(x.v[1])
      [] x.t = "str" -> x.v

\* stringify with String(data) where JSON.stringify belongs
stringifyByString(data) ==
    CASE typeof(data) = "string" -> data.v
      [] data.t \in {"arr", "obj"} -> <<"[object Object]">>
      [] OTHER -> StringOf(data)

\* Storage.stringify(data)
stringify(data) ==
    CASE typeof(data) = "string" -> data.v
      [] typeof(data) = "object" -> JSONstringify(data)
      [] OTHER -> StringOf(data)

\* read with a catch that yields null instead of the raw data
parseOrNull(data) ==
    LET r == JSONparse(StringOf(data))
    IN  IF r.ok THEN r.val ELSE Null

\* try { return JSON.parse(data) } catch (e) { return data }: JSON.parse
\* takes the string of its argument, so null parses to null and undefined
\* is a SyntaxError.
parseOrRaw(data) ==
    LET r == JSONparse(StringOf(data))
    IN  IF r.ok THEN r.val ELSE data

\* Storage.myParse(data)
myParse(data) == data

\* The backend's key/value map is a function from the keys present to texts.
NoItems == [k \in {} |-> <<>>]
getItem(st, key) == IF key \in DOMAIN st THEN Str(st[key]) ELSE Null
setItem(st, key, text) ==
    [k \in DOMAIN st \cup {key} |-> IF k = key THEN text ELSE st[k]]

(***************************************************************************)
(* Versions and the version comparator (the `migration' service)           *)
(***************************************************************************)
VersionText(major, minor, patch) ==
    NatText(major) \o <<".">> \o NatText(minor) \o <<".">> \o NatText(patch)
BetaText(major, minor, patch, n) ==
    VersionText(major, minor, patch) \o <<"-", "beta", ".">> \o NatText(n)

V100 == VersionText(1, 0, 0)
V100beta22 == BetaText(1, 0, 0, 22)
V100beta23 == BetaText(1, 0, 0, 23)
V100beta35 == BetaText(1, 0, 0, 35)
V100beta40 == BetaText(1, 0, 0, 40)
V100beta47 == BetaText(1, 0, 0, 47)

\* WavesApp.version
WavesApp_version == V100

\* The precedence key of a version text: <<major, minor, patch, release, beta>>
\* where a release ranks above its pre-releases.
SemverKey(s) ==
    Let(LAMBDA a :
      Let(LAMBDA b :
        Let(LAMBDA c :
              IF At(s, c.pos) = "-"
              THEN <<a.val, b.val, c.val, 0, ScanDigits(s, c.pos + 3, 0).val>>
              ELSE <<a.val, b.val, c.val, 1, 0>>,
            ScanDigits(s, b.pos + 1, 0)),
          ScanDigits(s, a.pos + 1, 0)),
        ScanDigits(s, 1, 0))

RECURSIVE LexLess(_, _)
LexLess(x, y) ==
    /\ x # <<>>
    /\ \/ Head(x) < Head(y)
       \/ Head(x) = Head(y) /\ LexLess(Tail(x), Tail(y))

\* migration.gt(a, b)
VersionGt(a, b) ==
    Let(LAMBDA kb : Let(LAMBDA ka : LexLess(kb, ka), SemverKey(a)), SemverKey(b))

SeqRange(s) == {s[i] : i \in 1..Len(s)}

\* The versions of S in ascending order: the i-th is newer than i - 1 others
SortVersions(S) ==
    [i \in 1..Cardinality(S) |->
        CHOOSE k \in S : Cardinality({y \in S : VersionGt(k, y)}) = i - 1]

\* migration.migrateFrom(version, versionList): the versions of the list
\* strictly newer than `version', ascending.
migrateFrom(version, versionList) ==
    Let(LAMBDA newer : SortVersions(newer),
        {k \in SeqRange(versionList) : VersionGt(k, version)})

(***************************************************************************)
(* The steps of MIGRATION_MAP, as the callbacks of their storage.load      *)
(***************************************************************************)
\* Object.keys(MIGRATION_MAP), in the order the steps are registered
MIGRATION_KEYS == <<V100, V100beta23, V100beta35, V100beta40, V100beta47>>

\* WavesApp.defaultAssets
DASH == Str(<<"DASH">>)
XMR == Str(<<"XMR">>)

\* The outcome of a callback: the value it returns, or a thrown TypeError
Return(x) == [throws |-> FALSE, val |-> x]
Throw == [throws |-> TRUE, val |-> Undefined]

\* o[k] of an object (undefined for a property it lacks)
GetProp(o, k) ==
    IF o.t = "obj" /\ HasKey(o.v, k)
    THEN (o.v[CHOOSE i \in 1..Len(o.v) : o.v[i][1] = k])[2]
    ELSE Undefined

\* delete o[k]
DelProp(ps, k) == SelectSeq(ps, LAMBDA p : p[1] # k)

K(name) == <<name>>

\* (list = []) => ...: the default applies to undefined alone
DefaultList(list) == IF list.t = "undefined" THEN Arr(<<>>) ELSE list

\* The map callback taking encryptedSeed from account.address
legacyUserByAddress(account) ==
    Obj(<< <<K("address"), GetProp(account, K("address"))>>,
           <<K("encryptedSeed"), GetProp(account, K("address"))>>,
           <<K("settings"), Obj(<< <<K("encryptionRounds"), Num(1000)>> >>)>> >>)

\* account => ({ address, encryptedSeed: account.cipher, settings })
legacyUser(account) ==
    Obj(<< <<K("address"), GetProp(account, K("address"))>>,
           <<K("encryptedSeed"), GetProp(account, K("cipher"))>>,
           <<K("settings"), Obj(<< <<K("encryptionRounds"), Num(1000)>> >>)>> >>)

\* MIGRATION_MAP['1.0.0'], the callback of load('Wavesmainnet'): null when
\* there is no legacy data, else the user list to save after the clear.
step100(data) ==
    IF ~Truthy(data) THEN Return(Null)
    ELSE LET accounts == GetProp(data, K("accounts")) IN
         IF accounts.t # "arr"
            \/ \E i \in 1..Len(accounts.v) : accounts.v[i].t \notin {"obj", "arr"}
         THEN Throw
         ELSE Return(Arr([i \in 1..Len(accounts.v) |-> legacyUser(accounts.v[i])]))

\* tsUtils.set(item, 'settings.<name>', value)
setSetting(item, name, value) ==
    LET old == GetProp(item, K("settings"))
        settings == IF old.t = "obj" THEN old ELSE Obj(<<>>)
    IN  Obj(PutProp(item.v, K("settings"), Obj(PutProp(settings.v, K(name), value))))

\* tsUtils.unset(item, 'settings.<name>')
unsetSetting(item, name) ==
    LET old == GetProp(item, K("settings")) IN
    IF old.t = "obj"
    THEN Obj(PutProp(item.v, K("settings"), Obj(DelProp(old.v, K(name)))))
    ELSE item

\* list.map / list.forEach throw a TypeError unless list is an array (null
\* has no properties); the items are the objects of the list.
IsUserArray(list) ==
    list.t = "arr" /\ \A i \in 1..Len(list.v) : list.v[i].t = "obj"

\* MIGRATION_MAP['1.0.0-beta.23'], the callback of load('userList')
stepBeta23(loaded) ==
    LET list == DefaultList(loaded) IN
    IF ~IsUserArray(list) THEN Throw
    ELSE Return(Arr([i \in 1..Len(list.v) |->
                        setSetting(list.v[i], "lastOpenVersion", Str(V100beta22))]))

\* The forEach body without the includes test
gatewayUserAlways(user, gateway) ==
    LET own == GetProp(user, K("settings"))
        settings == IF Truthy(own) THEN own ELSE Obj(<<>>)
        idList == GetProp(settings, K("pinnedAssetIdList"))
    IN  IF idList.t = "arr"
        THEN Obj(PutProp(user.v, K("settings"),
                 Obj(PutProp(settings.v, K("pinnedAssetIdList"),
                             Arr(Append(idList.v, gateway))))))
        ELSE user

\* The forEach body with unshift where push belongs
gatewayUserFront(user, gateway) ==
    LET own == GetProp(user, K("settings"))
        settings == IF Truthy(own) THEN own ELSE Obj(<<>>)
        idList == GetProp(settings, K("pinnedAssetIdList"))
    IN  IF idList.t = "arr" /\ gateway \notin SeqRange(idList.v)
        THEN Obj(PutProp(user.v, K("settings"),
                 Obj(PutProp(settings.v, K("pinnedAssetIdList"),
                             Arr(<<gateway>> \o idList.v)))))
        ELSE user

\* The forEach body of addNewGateway on one user
gatewayUser(user, gateway) ==
    LET own == GetProp(user, K("settings"))
        settings == IF Truthy(own) THEN own ELSE Obj(<<>>)
        idList == GetProp(settings, K("pinnedAssetIdList"))
    IN  IF idList.t = "arr" /\ gateway \notin SeqRange(idList.v)
        THEN Obj(PutProp(user.v, K("settings"),
                 Obj(PutProp(settings.v, K("pinnedAssetIdList"),
                             Arr(Append(idList.v, gateway))))))
        ELSE user

\* idList.includes(gateway) / idList.push(gateway) throw a TypeError when
\* idList is truthy and has no such method: only arrays have both, and a
\* string has includes (taken on whole lexemes) but no push.
gatewayThrows(user, gateway) ==
    LET own == GetProp(user, K("settings"))
        idList == GetProp(IF Truthy(own) THEN own ELSE Obj(<<>>),
                          K("pinnedAssetIdList"))
    IN  /\ Truthy(idList)
        /\ idList.t # "arr"
        /\ ~(idList.t = "str" /\ \E i \in 1..Len(idList.v) :
                SubSeq(idList.v, i, i + Len(gateway.v) - 1) = gateway.v)

\* addNewGateway(storage, gateway), the callback of load('userList')
addNewGateway(loaded, gateway) ==
    LET users == DefaultList(loaded) IN
    IF ~IsUserArray(users) THEN Throw
    ELSE IF \E i \in 1..Len(users.v) : gatewayThrows(users.v[i], gateway) THEN Throw
    ELSE Return(Arr([i \in 1..Len(users.v) |-> gatewayUser(users.v[i], gateway)]))

\* MIGRATION_MAP['1.0.0-beta.47'], the callback of load('userList')
stepBeta47(loaded) ==
    LET list == DefaultList(loaded) IN
    IF ~IsUserArray(list) THEN Throw
    ELSE Return(Arr([i \in 1..Len(list.v) |-> unsetSetting(list.v[i], "dex")]))

(***************************************************************************)
(* Storage operations in flight                                            *)
(*                                                                         *)
(* read / write / clear of the browser backend act on localStorage during  *)
(* the call and return a settled promise.  Those of the host bridge hand   *)
(* the operation to WebStorage and return its promise: the operation takes *)
(* effect in the host later, and the bridge promises nothing about the     *)
(* order in which operations that are in flight together take effect.      *)
(***************************************************************************)
MaxCrashes == 1
MaxCallerOps == 2

VARIABLES
    backend,        \* "web" (WavesApp.isWeb()) or "bridge"
    hostAbsent,     \* what the backend's read of an absent key yields
    registered,     \* Object.keys(MIGRATION_MAP)
    store,          \* the backend's key/value map
    inflight,       \* the storage operations issued and not yet consumed
    pc,             \* what the constructor's promise chain awaits
    version,        \* the constructor callback's `version'
    lastOpenVersion,\* state.lastOpenVersion
    versions,       \* the constructor callback's `versions'
    todo,           \* chainCall: the functions not yet called
    cur,            \* the migration step in flight
    carry,          \* the userList a '1.0.0' step holds across its clear
    isNewDefer,     \* this._isNewDefer
    storedAtStart,  \* history: getItem('lastVersion') when the process started
    executed,       \* history: the steps called in this process, in order
    completed,      \* history: the steps whose promise fulfilled
    resolveCalls,   \* history: calls of this._isNewDefer.resolve
    stepStart,      \* history: the backend's map when the last step was called
    epoch,          \* history: crashes so far
    crashedSteps,   \* history: the steps the crashed process had called
    callerOps,      \* the caller's operations issued so far
    callerPrev,     \* the caller's operation before the last
    callerLast,     \* the caller's last operation
    savedKeys,      \* history: the keys stored at start or saved by the caller
    callerLanded,   \* history: a save or clear of the caller took effect
    runnerAfterCaller, \* history: an operation the runner started took
                       \* effect after a save or clear of the caller
    shimData,       \* the in-memory shim's _data: <<name, text>> as inserted
    refStore,       \* a reference string key/value store given the same calls
    shimOps,        \* the calls made on the shim so far
    shimResult,     \* what the shim's last call returned
    refResults,     \* what the reference store may return for that call
    login,          \* whether user.onLogin() has resolved
    balanceCache,   \* Assets._balanceCache: "undefined" or "created"
    cacheData,      \* the balance list _balanceCache.get() resolves with
    pendingOut,     \* eventManager: tokens in unconfirmed outgoing transfers
    assetsCall,     \* the call of the Assets service in progress, or the last
    assetsCalls,    \* the calls of the Assets service so far
    cacheReadEarly  \* history: a call read _balanceCache before it existed

vars == <<backend, hostAbsent, registered, store, inflight, pc, version,
          lastOpenVersion, versions, todo, cur, carry, isNewDefer,
          storedAtStart, executed, completed, resolveCalls, stepStart, epoch,
          crashedSteps, callerOps, callerPrev, callerLast, savedKeys,
          callerLanded, runnerAfterCaller, shimData, refStore, shimOps,
          shimResult, refResults, login, balanceCache, cacheData, pendingOut,
          assetsCall, assetsCalls, cacheReadEarly>>

runnerVars == <<pc, version, lastOpenVersion, versions, todo, cur, carry,
                isNewDefer, executed, completed, resolveCalls, stepStart>>
callerVars == <<callerOps, callerPrev, callerLast, savedKeys>>
shimVars == <<shimData, refStore, shimOps, shimResult, refResults>>
assetsVars == <<login, balanceCache, cacheData, pendingOut, assetsCall,
                assetsCalls, cacheReadEarly>>
\* What no action of the storage service changes
fixedVars == <<backend, hostAbsent, registered, shimVars, assetsVars>>
crashVars == <<storedAtStart, epoch, crashedSteps>>

Op(owner, kind, key, text, awaited) ==
    [owner |-> owner, kind |-> kind, key |-> key, text |-> text,
     awaited |-> awaited, done |-> FALSE, result |-> Undefined]

\* Effect with a clear that erases nothing
EffectNoClear(st, op) ==
    CASE op.kind = "write" -> setItem(st, op.key, op.text)
      [] OTHER -> st

\* localStorage.setItem / localStorage.clear, WebStorage.writeStorage /
\* WebStorage.clearStorage: what the operation does to the backend's map
Effect(st, op) ==
    CASE op.kind = "write" -> setItem(st, op.key, op.text)
      [] op.kind = "clear" -> NoItems
      [] OTHER -> st

\* localStorage.getItem / WebStorage.readStorage: what the operation yields
ResultOf(st, op) ==
    IF op.kind # "read" THEN Undefined
    ELSE IF op.key \in DOMAIN st THEN Str(st[op.key])
    ELSE hostAbsent

Performed(st, op) == [op EXCEPT !.done = TRUE, !.result = ResultOf(st, op)]

\* read(key), write(key, value), clear() of the selected backend, on the
\* pair s of the backend's map and the operations in flight
Issue(s, op) ==
    Let(LAMBDA o :
            IF backend = "web"
            THEN [store |-> Effect(s.store, o),
                  inflight |-> IF o.awaited
                               THEN s.inflight \cup {Performed(s.store, o)}
                               ELSE s.inflight]
            ELSE [store |-> s.store, inflight |-> s.inflight \cup {o}],
        op)

\* Storage.load(key)
load(owner, key) == Op(owner, "read", key, <<>>, TRUE)
\* Storage.save(key, value); `awaited' is whether the caller uses the promise
save(owner, key, value, awaited) ==
    Op(owner, "write", key, stringify(value), awaited)
\* Storage.clear()
clear(owner) == Op(owner, "clear", "", <<>>, TRUE)

\* What load's promise fulfils with: read's parse, then Storage.myParse
loaded(op) == myParse(parseOrRaw(op.result))

Settled(owner) == {op \in inflight : op.owner = owner /\ op.awaited /\ op.done}

(***************************************************************************)
(* The migration runner: the constructor's promise chain                   *)
(***************************************************************************)
\* this._isNewDefer.resolve(value): the first resolution stands
resolve(defer, value) ==
    IF defer.resolved THEN defer ELSE [resolved |-> TRUE, value |-> value]

\* versionCallback resolving the deferred before the chain has run
versionCallbackEarly(v, keys) ==
    IF Truthy(v)
    THEN [chain |-> TRUE, versions |-> migrateFrom(v.v, keys),
          resolveNow |-> TRUE, value |-> v]
    ELSE [chain |-> FALSE, versions |-> <<>>, resolveNow |-> TRUE, value |-> v]

\* versionCallback chaining the newer steps in the order of Object.keys
versionCallbackUnsorted(v, keys) ==
    IF Truthy(v)
    THEN [chain |-> TRUE,
          versions |-> SelectSeq(keys, LAMBDA k : VersionGt(k, v.v)),
          resolveNow |-> FALSE, value |-> v]
    ELSE [chain |-> FALSE, versions |-> <<>>, resolveNow |-> TRUE, value |-> v]

\* versionCallback running every step when there is no prior version
versionCallbackNoBranch(v, keys) ==
    IF Truthy(v)
    THEN [chain |-> TRUE, versions |-> migrateFrom(v.v, keys),
          resolveNow |-> FALSE, value |-> v]
    ELSE [chain |-> TRUE, versions |-> SortVersions(SeqRange(keys)),
          resolveNow |-> FALSE, value |-> v]

\* versionCallback without the resolve of the branch that chains nothing
versionCallbackSilent(v, keys) ==
    IF Truthy(v)
    THEN [chain |-> TRUE, versions |-> migrateFrom(v.v, keys),
          resolveNow |-> FALSE, value |-> v]
    ELSE [chain |-> FALSE, versions |-> <<>>, resolveNow |-> FALSE, value |-> v]

\* The body of the constructor's callback after the save: the steps to
\* chain (chain = FALSE on the branch that chains nothing), and whether
\* the deferred is resolved in the callback itself.
versionCallback(v, keys) ==
    IF Truthy(v)
    THEN [chain |-> TRUE, versions |-> migrateFrom(v.v, keys),
          resolveNow |-> FALSE, value |-> v]
    ELSE [chain |-> FALSE, versions |-> <<>>, resolveNow |-> TRUE, value |-> v]

\* chainThen with the resolution as the rejection handler too
chainThenAlways(outcome) == TRUE

\* chainCall(...).then(() => this._isNewDefer.resolve(version)): whether the
\* deferred is resolved for this outcome of the chain
chainThen(outcome) == outcome = "fulfilled"

\* The storage.load each step of MIGRATION_MAP starts with
stepFirstLoad(v) == IF v = V100 THEN "Wavesmainnet" ELSE "userList"

\* The callback of that load, per step
stepCallback(v, data) ==
    CASE v = V100 -> step100(data)
      [] v = V100beta23 -> stepBeta23(data)
      [] v = V100beta35 -> addNewGateway(data, DASH)
      [] v = V100beta40 -> addNewGateway(data, XMR)
      [] v = V100beta47 -> stepBeta47(data)

\* utils.chainCall on the functions left: calls the next one, which issues
\* its load, or fulfils when none is left.
chainCall(s, list) ==
    IF list = <<>>
    THEN [store |-> s.store, inflight |-> s.inflight, pc |-> "idle",
          cur |-> <<>>, todo |-> <<>>, called |-> <<>>, fulfilled |-> TRUE]
    ELSE Let(LAMBDA s2 :
                [store |-> s2.store, inflight |-> s2.inflight, pc |-> "load",
                 cur |-> Head(list), todo |-> Tail(list),
                 called |-> <<Head(list)>>, fulfilled |-> FALSE],
             Issue(s, load("runner", stepFirstLoad(Head(list)))))

\* A step's promise fulfilled: chainCall goes on, and the deferred is
\* resolved when the chain fulfils.
StepFulfilled(s) ==
    \E c \in {chainCall(s, todo)} :
    \E res \in {c.fulfilled /\ chainThen("fulfilled")} :
        /\ store' = c.store
        /\ inflight' = c.inflight
        /\ pc' = c.pc
        /\ cur' = c.cur
        /\ todo' = c.todo
        /\ executed' = executed \o c.called
        /\ stepStart' = IF c.called # <<>> THEN c.store ELSE stepStart
        /\ completed' = Append(completed, cur)
        /\ isNewDefer' = IF res THEN resolve(isNewDefer, version) ELSE isNewDefer
        /\ resolveCalls' = resolveCalls + (IF res THEN 1 ELSE 0)
        /\ carry' = Undefined

\* A step's promise rejected: chainCall rejects and calls nothing more.
StepRejected(s) ==
    \E res \in {chainThen("rejected")} :
        /\ store' = s.store
        /\ inflight' = s.inflight
        /\ pc' = "rejected"
        /\ cur' = <<>>
        /\ todo' = <<>>
        /\ isNewDefer' = IF res THEN resolve(isNewDefer, version) ELSE isNewDefer
        /\ resolveCalls' = resolveCalls + (IF res THEN 1 ELSE 0)
        /\ UNCHANGED <<executed, completed, carry, stepStart>>

\* constructor: this.load('lastVersion').then((version) => { ... })
OnVersionLoaded ==
    /\ pc = "version"
    /\ \E op \in Settled("runner") :
       \E v \in {loaded(op)} :
       \E s1 \in {Issue([store |-> store, inflight |-> inflight \ {op}],
                        save("runner", "lastVersion", Str(WavesApp_version), FALSE))} :
       \E d \in {versionCallback(v, registered)} :
       \E c \in {IF d.chain THEN chainCall(s1, d.versions)
                 ELSE [chainCall(s1, <<>>) EXCEPT !.fulfilled = FALSE]} :
       \E res \in {c.fulfilled /\ chainThen("fulfilled")} :
            /\ version' = v
            /\ lastOpenVersion' = v
            /\ versions' = d.versions
            /\ store' = c.store
            /\ inflight' = c.inflight
            /\ pc' = c.pc
            /\ cur' = c.cur
            /\ todo' = c.todo
            /\ executed' = executed \o c.called
            /\ stepStart' = IF c.called # <<>> THEN c.store ELSE stepStart
            /\ isNewDefer' = IF d.resolveNow \/ res THEN resolve(isNewDefer, d.value)
                             ELSE isNewDefer
            /\ resolveCalls' = resolveCalls + (IF d.resolveNow THEN 1 ELSE 0)
                                 + (IF res THEN 1 ELSE 0)
    /\ UNCHANGED <<completed, carry>>
    /\ UNCHANGED <<fixedVars, crashVars, callerVars, callerLanded, runnerAfterCaller>>

\* The callback of the load of step v
StepOnLoad(v) ==
    /\ pc = "load"
    /\ cur = v
    /\ \E op \in Settled("runner") :
       \E data \in {loaded(op)} :
       \E r \in {stepCallback(v, data)} :
       \E s \in {[store |-> store, inflight |-> inflight \ {op}]} :
            IF r.throws THEN StepRejected(s)
            ELSE IF v = V100
            THEN IF r.val = Null THEN StepFulfilled(s)
                 ELSE \E s2 \in {Issue(s, clear("runner"))} :
                          /\ store' = s2.store
                          /\ inflight' = s2.inflight
                          /\ pc' = "clear"
                          /\ carry' = r.val
                          /\ UNCHANGED <<cur, todo, executed, completed,
                                         isNewDefer, resolveCalls, stepStart>>
            ELSE \E s2 \in {Issue(s, save("runner", "userList", r.val, TRUE))} :
                     /\ store' = s2.store
                     /\ inflight' = s2.inflight
                     /\ pc' = "save"
                     /\ UNCHANGED <<cur, todo, executed, completed, carry,
                                    isNewDefer, resolveCalls, stepStart>>
    /\ UNCHANGED <<version, lastOpenVersion, versions>>
    /\ UNCHANGED <<fixedVars, crashVars, callerVars, callerLanded, runnerAfterCaller>>

\* MIGRATION_MAP['1.0.0']: storage.load('Wavesmainnet').then((data) => ...)
Step100OnLoad == StepOnLoad(V100)
\* MIGRATION_MAP['1.0.0-beta.23']: storage.load('userList').then(...)
StepBeta23OnLoad == StepOnLoad(V100beta23)
\* MIGRATION_MAP['1.0.0-beta.35']: addNewGateway(storage, DASH)
StepBeta35OnLoad == StepOnLoad(V100beta35)
\* MIGRATION_MAP['1.0.0-beta.40']: addNewGateway(storage, XMR)
StepBeta40OnLoad == StepOnLoad(V100beta40)
\* MIGRATION_MAP['1.0.0-beta.47']: storage.load('userList').then(...)
StepBeta47OnLoad == StepOnLoad(V100beta47)

\* MIGRATION_MAP['1.0.0']: storage.clear().then(() => storage.save(...))
Step100OnClear ==
    /\ pc = "clear"
    /\ \E op \in Settled("runner") :
       \E s2 \in {Issue([store |-> store, inflight |-> inflight \ {op}],
                        save("runner", "userList", carry, TRUE))} :
            /\ store' = s2.store
            /\ inflight' = s2.inflight
    /\ pc' = "save"
    /\ UNCHANGED <<version, lastOpenVersion, versions, todo, cur, carry,
                   isNewDefer, executed, completed, resolveCalls, stepStart>>
    /\ UNCHANGED <<fixedVars, crashVars, callerVars, callerLanded, runnerAfterCaller>>

\* The promise of a step's storage.save settles, and with it the step's
StepOnSave ==
    /\ pc = "save"
    /\ \E op \in Settled("runner") :
        StepFulfilled([store |-> store, inflight |-> inflight \ {op}])
    /\ UNCHANGED <<version, lastOpenVersion, versions>>
    /\ UNCHANGED <<fixedVars, crashVars, callerVars, callerLanded, runnerAfterCaller>>

(***************************************************************************)
(* The host bridge                                                         *)
(***************************************************************************)
\* WebStorage performs one of the operations in flight
HostPerform ==
    /\ backend = "bridge"
    /\ \E op \in inflight :
        /\ ~op.done
        /\ store' = Effect(store, op)
        /\ inflight' = (inflight \ {op})
                         \cup (IF op.awaited THEN {Performed(store, op)} ELSE {})
        /\ callerLanded' = (callerLanded \/ (op.owner = "caller" /\ op.kind # "read"))
        /\ runnerAfterCaller' = (runnerAfterCaller \/ (op.owner = "runner" /\ callerLanded))
    /\ UNCHANGED <<fixedVars, crashVars, callerVars, runnerVars>>

(***************************************************************************)
(* A caller of the service, who awaits onReady() and each of its own calls *)
(***************************************************************************)
NoCall == [kind |-> "none", key |-> "", value |-> Undefined,
           state |-> "none", result |-> Undefined]

CallerKeys == {"userList"}

CallerIssue(op, value) ==
    /\ isNewDefer.resolved
    /\ callerOps < MaxCallerOps
    /\ callerLast.state # "sent"
    /\ LET s == Issue([store |-> store, inflight |-> inflight], op)
       IN  /\ store' = s.store
           /\ inflight' = s.inflight
    /\ callerOps' = callerOps + 1
    /\ callerPrev' = callerLast
    /\ callerLast' = [kind |-> op.kind, key |-> op.key, value |-> value,
                      state |-> "sent", result |-> Undefined]
    /\ savedKeys' = IF op.kind = "write" THEN savedKeys \cup {op.key} ELSE savedKeys
    /\ callerLanded' = (callerLanded \/ (backend = "web" /\ op.kind # "read"))
    /\ UNCHANGED <<fixedVars, crashVars, runnerVars, runnerAfterCaller>>

\* storage.save(key, value)
CallerSave(key, value) == CallerIssue(save("caller", key, value, TRUE), value)
\* storage.load(key)
CallerLoad(key) == CallerIssue(load("caller", key), Undefined)
\* storage.clear()
CallerClear == CallerIssue(clear("caller"), Undefined)

\* The promise of the caller's call settles
CallerSettle ==
    /\ \E op \in Settled("caller") :
        /\ inflight' = inflight \ {op}
        /\ callerLast' = [callerLast EXCEPT !.state = "done",
                            !.result = IF op.kind = "read" THEN loaded(op)
                                       ELSE Undefined]
    /\ UNCHANGED <<store, callerOps, callerPrev, savedKeys, callerLanded,
                   runnerAfterCaller>>
    /\ UNCHANGED <<fixedVars, crashVars, runnerVars>>

(***************************************************************************)
(* The in-memory localStorage shim                                         *)
(*                                                                         *)
(* _data is an object without prototype; its own properties are kept as    *)
(* <<name, text>> pairs in insertion order, a name being a text.           *)
(***************************************************************************)
MaxShimOps == 3

\* A canonical array index: Object.keys lists such names first, ascending
IsIndexName(name) ==
    /\ name # <<>>
    /\ \A i \in 1..Len(name) : IsDigit(name[i])
    /\ Len(name) = 1 \/ name[1] # "0"

IndexOf(name) == ScanDigits(name, 1, 0).val

\* Object.keys(this._data): the index names ascending, then the other names
\* in insertion order
ObjectKeys(data) ==
    LET idx == {data[i][1] : i \in {j \in 1..Len(data) : IsIndexName(data[j][1])}}
        rest == SelectSeq(data, LAMBDA p : ~IsIndexName(p[1]))
    IN  [i \in 1..Cardinality(idx) |->
            CHOOSE n \in idx :
                Cardinality({m \in idx : IndexOf(m) < IndexOf(n)}) = i - 1]
        \o [i \in 1..Len(rest) |-> rest[i][1]]

\* get length()
storage_length(data) == Num(Len(ObjectKeys(data)))

\* key(n): an index past the end of an array yields undefined
storage_key(data, n) ==
    IF n + 1 <= Len(ObjectKeys(data)) THEN Str(ObjectKeys(data)[n + 1])
    ELSE Undefined

\* setItem(name, value)
storage_setItem(data, name, value) ==
    PutProp(data, name, Str(StringOf(value)))

\* removeItem(key)
storage_removeItem(data, key) == DelProp(data, key)

\* getItem(name)
storage_getItem(data, name) ==
    IF HasKey(data, name) THEN GetProp(Obj(data), name) ELSE Null

\* clear()
storage_clear == <<>>

\* The shim before any call
ShimIdle ==
    /\ shimData = <<>>
    /\ refStore = NoItems
    /\ shimOps = 0
    /\ shimResult = Undefined
    /\ refResults = {Undefined}

(***************************************************************************)
(* The Assets service                                                      *)
(***************************************************************************)
MaxAssetCalls == 2

AssetIds == {"WAVES", "BTC", "EUR"}

\* Waves.Money: an amount of tokens of an asset
Money(assetId, tokens) == [asset |-> assetId, tokens |-> tokens]

\* info(assetId): the asset Waves.Asset.get resolves with
info(assetId) == [id |-> assetId]

\* eventManager.updateBalance(money): the amount less what the unconfirmed
\* outgoing transactions of the user spend of that asset
getAssetBalance(money, pending) ==
    Money(money.asset, money.tokens - pending[money.asset])

\* utils.toHash(balanceList, 'id')[id]: the last entry of that id, if any
HasEntry(balanceList, id) == \E i \in 1..Len(balanceList) : balanceList[i].id = id
HashEntry(balanceList, id) ==
    balanceList[CHOOSE i \in 1..Len(balanceList) :
        /\ balanceList[i].id = id
        /\ \A j \in (i + 1)..Len(balanceList) : balanceList[j].id # id]

\* { ...asset, balance } with the balance as computed, negative or not
WithBalanceNoClamp(asset, amount, pending) ==
    [id |-> asset.id, balance |-> getAssetBalance(amount, pending)]

\* { ...asset, balance }: a negative balance becomes zero tokens of its asset
WithBalance(asset, amount, pending) ==
    LET balance == getAssetBalance(amount, pending)
    IN  IF balance.tokens < 0
        THEN [id |-> asset.id, balance |-> Money(balance.asset, 0)]
        ELSE [id |-> asset.id, balance |-> balance]

\* The callback of balanceList on [assetList, balanceList], the asset list
\* being the infos of the requested ids in the order requested
balanceListThen(assetIdList, balanceList, pending) ==
    [i \in 1..Len(assetIdList) |->
        LET asset == info(assetIdList[i])
        IN  IF HasEntry(balanceList, asset.id)
            THEN WithBalance(asset, HashEntry(balanceList, asset.id).amount,
                             pending)
            ELSE [id |-> asset.id, balance |-> Money(asset.id, 0)]]

\* The callback of userBalances on the balance list
userBalancesThen(balanceList, pending) ==
    [i \in 1..Len(balanceList) |->
        WithBalance(info(balanceList[i].id), balanceList[i].amount, pending)]

NoPending == [a \in AssetIds |-> 0]
NoAssetsCall ==
    [kind |-> "none", ids |-> <<>>, state |-> "none", used |-> <<>>,
     pending |-> NoPending, result |-> <<>>]

\* The Assets service before the login and before any call
AssetsIdle ==
    /\ login = FALSE
    /\ balanceCache = "undefined"
    /\ cacheData = <<>>
    /\ pendingOut = NoPending
    /\ assetsCall = NoAssetsCall
    /\ assetsCalls = 0
    /\ cacheReadEarly = FALSE

(***************************************************************************)
(* Process start, crash and restart                                        *)
(***************************************************************************)
\* new Storage(): the constructor issues load('lastVersion')
Construct(st) ==
    LET s == Issue([store |-> st, inflight |-> {}], load("runner", "lastVersion"))
    IN  /\ store = s.store
        /\ inflight = s.inflight
        /\ pc = "version"
        /\ version = Undefined
        /\ lastOpenVersion = Undefined
        /\ versions = <<>>
        /\ todo = <<>>
        /\ cur = <<>>
        /\ carry = Undefined
        /\ isNewDefer = [resolved |-> FALSE, value |-> Undefined]
        /\ executed = <<>>
        /\ completed = <<>>
        /\ resolveCalls = 0
        /\ stepStart = st
        /\ storedAtStart = getItem(st, "lastVersion")

StoredValue(x) == stringify(x)

\* What storage may hold when the application starts
StartVersions == {V100beta22, V100beta35, V100beta47, V100}

LegacyData ==
    Obj(<< <<K("accounts"),
             Arr(<< Obj(<< <<K("address"), Str(<<"3P1">>)>>,
                           <<K("cipher"), Str(<<"c1">>)>>,
                           <<K("name"), Str(<<"main">>)>> >>),
                    Obj(<< <<K("address"), Str(<<"3P2">>)>>,
                           <<K("cipher"), Str(<<"c2">>)>> >>) >>)>> >>)

UserListData ==
    Arr(<< Obj(<< <<K("address"), Str(<<"3P3">>)>>,
                  <<K("encryptedSeed"), Str(<<"s3">>)>> >>),
           Obj(<< <<K("address"), Str(<<"3P4">>)>>,
                  <<K("encryptedSeed"), Str(<<"s4">>)>>,
                  <<K("settings"),
                    Obj(<< <<K("encryptionRounds"), Num(1000)>>,
                           <<K("pinnedAssetIdList"), Arr(<<Str(<<"WAVES">>)>>)>>,
                           <<K("dex"), Obj(<< <<K("pair"), Str(<<"W", "\"", "B">>)>> >>)>> >>)>> >>),
           Obj(<< <<K("address"), Str(<<"3P5">>)>>,
                  <<K("encryptedSeed"), Str(<<"s5">>)>>,
                  <<K("settings"),
                    Obj(<< <<K("pinnedAssetIdList"),
                             Arr(<<Str(<<"WAVES">>), DASH>>)>> >>)>> >>) >>)

StartStores ==
    {[k \in ks |-> CASE k = "lastVersion" -> v
                     [] k = "Wavesmainnet" -> StoredValue(LegacyData)
                     [] k = "userList" -> StoredValue(UserListData)] :
        v \in StartVersions,
        ks \in {x \cup {"lastVersion"} : x \in SUBSET {"Wavesmainnet", "userList"}}}
    \cup {[k \in ks |-> CASE k = "Wavesmainnet" -> StoredValue(LegacyData)
                          [] k = "userList" -> StoredValue(UserListData)] :
        ks \in SUBSET {"Wavesmainnet", "userList"}}

RegistrationOrders ==
    {MIGRATION_KEYS, <<V100beta40, V100, V100beta47, V100beta23, V100beta35>>}

Init ==
    /\ \E b \in {<<"web", Null>>, <<"bridge", Undefined>>, <<"bridge", Null>>} :
        backend = b[1] /\ hostAbsent = b[2]
    /\ registered \in RegistrationOrders
    /\ \E st \in StartStores : Construct(st)
    /\ epoch = 0
    /\ crashedSteps = {}
    /\ callerOps = 0
    /\ callerPrev = NoCall
    /\ callerLast = NoCall
    /\ savedKeys = DOMAIN store
    /\ callerLanded = FALSE
    /\ runnerAfterCaller = FALSE
    /\ ShimIdle
    /\ AssetsIdle

\* The process dies before a caller has used the service, and the
\* application is started again on the same backend: what was in flight is
\* lost, what the backend holds stays.
CrashRestart ==
    /\ epoch < MaxCrashes
    /\ callerOps = 0
    /\ epoch' = epoch + 1
    /\ crashedSteps' = SeqRange(executed)
    /\ LET s == Issue([store |-> store, inflight |-> {}], load("runner", "lastVersion"))
       IN  /\ store' = s.store
           /\ inflight' = s.inflight
    /\ pc' = "version"
    /\ version' = Undefined
    /\ lastOpenVersion' = Undefined
    /\ versions' = <<>>
    /\ todo' = <<>>
    /\ cur' = <<>>
    /\ carry' = Undefined
    /\ isNewDefer' = [resolved |-> FALSE, value |-> Undefined]
    /\ executed' = <<>>
    /\ completed' = <<>>
    /\ resolveCalls' = 0
    /\ stepStart' = store
    /\ storedAtStart' = getItem(store, "lastVersion")
    /\ UNCHANGED <<fixedVars, callerVars, callerLanded, runnerAfterCaller>>

CallerValues == {Arr(<<>>)}

RunnerNext ==
    \/ OnVersionLoaded
    \/ Step100OnLoad
    \/ StepBeta23OnLoad
    \/ StepBeta35OnLoad
    \/ StepBeta40OnLoad
    \/ StepBeta47OnLoad
    \/ Step100OnClear
    \/ StepOnSave

CallerNext ==
    \/ \E k \in CallerKeys, v \in CallerValues : CallerSave(k, v)
    \/ \E k \in CallerKeys : CallerLoad(k)
    \/ CallerClear
    \/ CallerSettle

Next ==
    \/ RunnerNext
    \/ HostPerform
    \/ CallerNext
    \/ CrashRestart

Spec == Init /\ [][Next]_vars

\* The runner alone, before any caller uses the service: the promise
\* callbacks and the host run whenever they can.
FairNext ==
    \/ RunnerNext
    \/ HostPerform
    \/ CrashRestart

FairSpec ==
    Init /\ [][FairNext]_vars /\ WF_vars(RunnerNext) /\ WF_vars(HostPerform)

(***************************************************************************)
(* Storage.save / Storage.load on a service that is ready and idle         *)
(***************************************************************************)
CodecKeys == {"k", "userList"}

\* JSON-serializable values, and strings
CodecValues ==
    {Null, Bool(TRUE), Bool(FALSE), Num(0), Num(7), Num(-5), Num(1000),
     Arr(<<>>), Obj(<<>>),
     Arr(<<Num(1), Null, Str(<<"a", "\"", "\\">>), Arr(<<Bool(FALSE)>>)>>),
     Obj(<< <<K("n"), Num(10)>>, <<<<>>, Str(<<>>)>>,
            <<<<"q", "\"">>, Obj(<< <<K("l"), Arr(<<Num(-12), Str(<<"true">>)>>)>> >>)>> >>),
     LegacyData, UserListData,
     Str(<<>>), Str(<<"a", "b">>), Str(V100beta23), Str(<<"{">>),
     Str(<<"true">>), Str(<<"1", "2">>), Str(<<"\"", "a", "\"">>),
     Str(<<"[", "1", "]">>), Str(<<"null">>)}

CodecInit ==
    /\ \E b \in {<<"web", Null>>, <<"bridge", Undefined>>, <<"bridge", Null>>} :
        backend = b[1] /\ hostAbsent = b[2]
    /\ registered = MIGRATION_KEYS
    /\ store \in {NoItems, [k \in {"lastVersion"} |-> WavesApp_version],
                  [k \in {"lastVersion", "k"} |->
                      IF k = "k" THEN StoredValue(LegacyData) ELSE WavesApp_version]}
    /\ inflight = {}
    /\ pc = "idle"
    /\ version = getItem(store, "lastVersion")
    /\ lastOpenVersion = version
    /\ versions = <<>>
    /\ todo = <<>>
    /\ cur = <<>>
    /\ carry = Undefined
    /\ isNewDefer = [resolved |-> TRUE, value |-> version]
    /\ executed = <<>>
    /\ completed = <<>>
    /\ resolveCalls = 1
    /\ stepStart = store
    /\ storedAtStart = version
    /\ epoch = 0
    /\ crashedSteps = {}
    /\ callerOps = 0
    /\ callerPrev = NoCall
    /\ callerLast = NoCall
    /\ savedKeys = DOMAIN store
    /\ callerLanded = FALSE
    /\ runnerAfterCaller = FALSE
    /\ ShimIdle
    /\ AssetsIdle

CodecNext ==
    \/ \E k \in CodecKeys, v \in CodecValues : CallerSave(k, v)
    \/ \E k \in CodecKeys : CallerLoad(k)
    \/ CallerClear
    \/ CallerSettle
    \/ HostPerform

CodecSpec == CodecInit /\ [][CodecNext]_vars

(***************************************************************************)
(* The steps of MIGRATION_MAP called one after another on a storage, as    *)
(* the constructor's chain calls them once its lastVersion write has taken *)
(* effect                                                                  *)
(***************************************************************************)
MaxSteps == 2

\* A legacy item without accounts
LegacyNoAccounts == Obj(<< <<K("accounts"), Arr(<<>>)>> >>)

\* A user list whose records have settings without a pinned-asset list, with
\* a null one, and with one that holds both gateways
UserListOther ==
    Arr(<< Obj(<< <<K("address"), Str(<<"3P6">>)>>,
                  <<K("encryptedSeed"), Str(<<"s6">>)>>,
                  <<K("settings"), Obj(<< <<K("pinnedAssetIdList"), Null>> >>)>> >>),
           Obj(<< <<K("address"), Str(<<"3P7">>)>>,
                  <<K("settings"), Obj(<< <<K("dex"), Num(3)>> >>)>>,
                  <<K("encryptedSeed"), Str(<<"s7">>)>> >>),
           Obj(<< <<K("address"), Str(<<"3P8">>)>>,
                  <<K("encryptedSeed"), Str(<<"s8">>)>>,
                  <<K("settings"),
                    Obj(<< <<K("pinnedAssetIdList"),
                             Arr(<<XMR, Str(<<"WAVES">>), DASH>>)>>,
                           <<K("lastOpenVersion"), Str(V100beta35)>> >>)>> >>) >>)

StepStores ==
    {[k \in ks |-> CASE k = "lastVersion" -> WavesApp_version
                     [] k = "Wavesmainnet" -> StoredValue(legacy)
                     [] k = "userList" -> StoredValue(list)] :
        legacy \in {LegacyData, LegacyNoAccounts},
        list \in {UserListData, UserListOther, Arr(<<>>)},
        ks \in {x \cup {"lastVersion"} : x \in SUBSET {"Wavesmainnet", "userList"}}}

\* The lists of steps to call: any steps, a step more than once too
StepLists ==
    UNION {[1..n -> SeqRange(MIGRATION_KEYS)] : n \in 1..MaxSteps}

StepInit ==
    /\ \E b \in {<<"web", Null>>, <<"bridge", Undefined>>, <<"bridge", Null>>} :
        backend = b[1] /\ hostAbsent = b[2]
    /\ registered = MIGRATION_KEYS
    /\ \E st \in StepStores, list \in StepLists :
       \E c \in {chainCall([store |-> st, inflight |-> {}], list)} :
            /\ store = c.store
            /\ inflight = c.inflight
            /\ pc = c.pc
            /\ cur = c.cur
            /\ todo = c.todo
            /\ executed = c.called
            /\ versions = list
            /\ stepStart = st
    /\ version = Str(V100beta22)
    /\ lastOpenVersion = version
    /\ storedAtStart = version
    /\ carry = Undefined
    /\ isNewDefer = [resolved |-> FALSE, value |-> Undefined]
    /\ completed = <<>>
    /\ resolveCalls = 0
    /\ epoch = 0
    /\ crashedSteps = {}
    /\ callerOps = 0
    /\ callerPrev = NoCall
    /\ callerLast = NoCall
    /\ savedKeys = DOMAIN store
    /\ callerLanded = FALSE
    /\ runnerAfterCaller = FALSE
    /\ ShimIdle
    /\ AssetsIdle

StepNext ==
    \/ Step100OnLoad
    \/ StepBeta23OnLoad
    \/ StepBeta35OnLoad
    \/ StepBeta40OnLoad
    \/ StepBeta47OnLoad
    \/ Step100OnClear
    \/ StepOnSave
    \/ HostPerform

StepSpec == StepInit /\ [][StepNext]_vars

(***************************************************************************)
(* The shim and a reference string store given the same calls              *)
(***************************************************************************)
storageVars == <<backend, hostAbsent, registered, store, inflight, runnerVars,
                 callerVars, crashVars, callerLanded, runnerAfterCaller>>

\* The storage service ready and idle on the web backend
StorageIdle ==
    /\ backend = "web" /\ hostAbsent = Null
    /\ registered = MIGRATION_KEYS
    /\ store = [k \in {"lastVersion"} |-> WavesApp_version]
    /\ inflight = {}
    /\ pc = "idle"
    /\ version = getItem(store, "lastVersion")
    /\ lastOpenVersion = version
    /\ versions = <<>>
    /\ todo = <<>>
    /\ cur = <<>>
    /\ carry = Undefined
    /\ isNewDefer = [resolved |-> TRUE, value |-> version]
    /\ executed = <<>>
    /\ completed = <<>>
    /\ resolveCalls = 1
    /\ stepStart = store
    /\ storedAtStart = version
    /\ epoch = 0
    /\ crashedSteps = {}
    /\ callerOps = 0
    /\ callerPrev = NoCall
    /\ callerLast = NoCall
    /\ savedKeys = DOMAIN store
    /\ callerLanded = FALSE
    /\ runnerAfterCaller = FALSE

ShimNames == {<<"a">>, <<"b">>, <<"2">>, <<"1", "0">>}
ShimValues == {Str(<<"x">>), Num(7), Null}

\* Each call is made on the shim and on the reference store; refResults is
\* what the reference store may return, which enumerates its keys in an
\* order of its own.
ShimSetItem ==
    \E name \in ShimNames, value \in ShimValues :
        /\ shimOps < MaxShimOps
        /\ shimOps' = shimOps + 1
        /\ shimData' = storage_setItem(shimData, name, value)
        /\ shimResult' = Undefined
        /\ refStore' = setItem(refStore, name, StringOf(value))
        /\ refResults' = {Undefined}
        /\ UNCHANGED <<storageVars, assetsVars>>

ShimGetItem ==
    \E name \in ShimNames :
        /\ shimOps < MaxShimOps
        /\ shimOps' = shimOps + 1
        /\ shimResult' = storage_getItem(shimData, name)
        /\ refResults' = {getItem(refStore, name)}
        /\ UNCHANGED <<shimData, refStore, storageVars, assetsVars>>

ShimRemoveItem ==
    \E key \in ShimNames :
        /\ shimOps < MaxShimOps
        /\ shimOps' = shimOps + 1
        /\ shimData' = storage_removeItem(shimData, key)
        /\ shimResult' = Undefined
        /\ refStore' = [k \in DOMAIN refStore \ {key} |-> refStore[k]]
        /\ refResults' = {Undefined}
        /\ UNCHANGED <<storageVars, assetsVars>>

ShimClear ==
    /\ shimOps < MaxShimOps
    /\ shimOps' = shimOps + 1
    /\ shimData' = storage_clear
    /\ shimResult' = Undefined
    /\ refStore' = NoItems
    /\ refResults' = {Undefined}
    /\ UNCHANGED <<storageVars, assetsVars>>

ShimKey ==
    \E n \in 0..Cardinality(ShimNames) :
        /\ shimOps < MaxShimOps
        /\ shimOps' = shimOps + 1
        /\ shimResult' = storage_key(shimData, n)
        /\ refResults' = IF n < Cardinality(DOMAIN refStore)
                         THEN {Str(k) : k \in DOMAIN refStore} ELSE {Null}
        /\ UNCHANGED <<shimData, refStore, storageVars, assetsVars>>

ShimLength ==
    /\ shimOps < MaxShimOps
    /\ shimOps' = shimOps + 1
    /\ shimResult' = storage_length(shimData)
    /\ refResults' = {Num(Cardinality(DOMAIN refStore))}
    /\ UNCHANGED <<shimData, refStore, storageVars, assetsVars>>

ShimInit == StorageIdle /\ ShimIdle /\ AssetsIdle

ShimNext ==
    \/ ShimSetItem
    \/ ShimGetItem
    \/ ShimRemoveItem
    \/ ShimClear
    \/ ShimKey
    \/ ShimLength

ShimSpec == ShimInit /\ [][ShimNext]_vars

(***************************************************************************)
(* The Assets service with the login, the balance poll and its callers     *)
(***************************************************************************)
BalanceEntry(id, tokens) == [id |-> id, amount |-> Money(id, tokens)]

\* What Waves.API.Node.v2.addresses.balances may answer
BalanceLists ==
    {<<>>, <<BalanceEntry("WAVES", 1)>>,
     <<BalanceEntry("WAVES", 1), BalanceEntry("BTC", 2)>>,
     <<BalanceEntry("BTC", 1), BalanceEntry("WAVES", 0)>>}

\* What the unconfirmed outgoing transactions may spend
PendingOuts ==
    {NoPending, [a \in AssetIds |-> IF a = "BTC" THEN 2 ELSE 0],
     [a \in AssetIds |-> IF a = "WAVES" THEN 1 ELSE 0]}

\* The id lists given to balanceList
RequestLists == UNION {[1..n -> AssetIds] : n \in 0..2}

\* user.onLogin() resolves
UserLogin ==
    /\ ~login
    /\ login' = TRUE
    /\ UNCHANGED <<balanceCache, cacheData, pendingOut, assetsCall,
                   assetsCalls, cacheReadEarly, storageVars, shimVars>>

\* The constructor's callback of user.onLogin(): this._balanceCache is set
OnLoginThen ==
    /\ login
    /\ balanceCache = "undefined"
    /\ balanceCache' = "created"
    /\ UNCHANGED <<login, cacheData, pendingOut, assetsCall, assetsCalls,
                   cacheReadEarly, storageVars, shimVars>>

\* The PollCache polls _getBalances
PollRefresh ==
    /\ balanceCache = "created"
    /\ cacheData' \in BalanceLists \ {cacheData}
    /\ UNCHANGED <<login, balanceCache, pendingOut, assetsCall, assetsCalls,
                   cacheReadEarly, storageVars, shimVars>>

\* The eventManager learns of other unconfirmed transactions
EventChange ==
    /\ pendingOut' \in PendingOuts \ {pendingOut}
    /\ UNCHANGED <<login, balanceCache, cacheData, assetsCall, assetsCalls,
                   cacheReadEarly, storageVars, shimVars>>

\* A call evaluates this._balanceCache.get(): a TypeError is thrown when
\* _balanceCache is undefined, else the call waits for the cache
AssetsCallStart(kind, ids) ==
    /\ assetsCalls < MaxAssetCalls
    /\ assetsCall.state # "pending"
    /\ assetsCalls' = assetsCalls + 1
    /\ assetsCall' =
         [NoAssetsCall EXCEPT !.kind = kind, !.ids = ids,
            !.state = IF balanceCache = "created" THEN "pending" ELSE "threw"]
    /\ cacheReadEarly' = (cacheReadEarly \/ balanceCache # "created")
    /\ UNCHANGED <<login, balanceCache, cacheData, pendingOut, storageVars,
                   shimVars>>

\* balanceList(assetIdList)
CallBalanceList ==
    \E ids \in RequestLists :
        /\ assetsCalls < MaxAssetCalls
        /\ AssetsCallStart("balanceList", ids)

\* balance(assetId): balanceList([assetId])
CallBalance ==
    \E id \in AssetIds :
        /\ assetsCalls < MaxAssetCalls
        /\ AssetsCallStart("balance", <<id>>)

\* userBalances()
CallUserBalances ==
    /\ assetsCalls < MaxAssetCalls
    /\ AssetsCallStart("userBalances", <<>>)

\* The cache has answered and every info and Money promise has resolved
AssetsCallThen ==
    /\ assetsCall.state = "pending"
    /\ assetsCall' =
         [assetsCall EXCEPT
            !.state = "resolved", !.used = cacheData, !.pending = pendingOut,
            !.result =
               CASE assetsCall.kind = "balanceList" ->
                      balanceListThen(assetsCall.ids, cacheData, pendingOut)
                 [] assetsCall.kind = "balance" ->
                      balanceListThen(assetsCall.ids, cacheData, pendingOut)[1]
                 [] assetsCall.kind = "userBalances" ->
                      userBalancesThen(cacheData, pendingOut)]
    /\ UNCHANGED <<login, balanceCache, cacheData, pendingOut, assetsCalls,
                   cacheReadEarly, storageVars, shimVars>>

AssetsInit == StorageIdle /\ ShimIdle /\ AssetsIdle

AssetsNext ==
    \/ UserLogin
    \/ OnLoginThen
    \/ PollRefresh
    \/ EventChange
    \/ CallBalanceList
    \/ CallBalance
    \/ CallUserBalances
    \/ AssetsCallThen

AssetsSpec == AssetsInit /\ [][AssetsNext]_vars

(***************************************************************************)
(* The claims                                                              *)
(***************************************************************************)
Upgrade == storedAtStart.t = "str"
Ready == isNewDefer.resolved

\* The comparator's verdicts on the versions a start can find stored, and
\* the comparison keys of the steps' versions, computed once
NewerThan ==
    [v \in StartVersions \cup {WavesApp_version} |->
        {k \in SeqRange(MIGRATION_KEYS) : VersionGt(k, v)}]
SemverKeys == [k \in SeqRange(MIGRATION_KEYS) |-> SemverKey(k)]

\* The registered steps strictly newer than the version stored at start
Newer ==
    IF storedAtStart.v \in DOMAIN NewerThan
    THEN {k \in SeqRange(registered) : k \in NewerThan[storedAtStart.v]}
    ELSE {k \in SeqRange(registered) : VersionGt(k, storedAtStart.v)}

\* C1: on a start with a prior lastVersion, onReady() is not resolved while
\* a step the comparator selected has not completed.
C1_ReadyOnlyAfterMigrations ==
    (Upgrade /\ Ready) => /\ Newer \subseteq SeqRange(completed)
                          /\ pc = "idle"

C1_Witness == Upgrade /\ Ready /\ Len(completed) >= 2

\* C2: on an upgrade start the steps that execute are registered steps
\* strictly newer than the prior version, in ascending version order without
\* repetition or gap, and they are all of them once onReady() resolves,
\* whatever the order of Object.keys(MIGRATION_MAP).
C2_NewerStepsAscending ==
    Upgrade =>
        \E N \in {Newer} :
        \E key \in {[k \in SeqRange(registered) |->
                        IF k \in DOMAIN SemverKeys THEN SemverKeys[k]
                        ELSE SemverKey(k)]} :
            /\ SeqRange(executed) \subseteq N
            /\ \A i, j \in 1..Len(executed) :
                  i < j => LexLess(key[executed[i]], key[executed[j]])
            /\ \A k \in N : \A i \in 1..Len(executed) :
                  LexLess(key[k], key[executed[i]]) => k \in SeqRange(executed)
            /\ Ready => SeqRange(executed) = N

C2_Witness ==
    /\ Upgrade /\ Ready
    /\ Len(executed) = 5
    /\ registered # MIGRATION_KEYS

\* C3: at most one migration step is in flight (started and not settled) at
\* any time, and within the runner no two storage operations are pending at
\* the same time.
C3_StepsAndOperationsSerialized ==
    /\ Len(executed) <= Len(completed) + 1
    /\ Cardinality({op \in inflight : op.owner = "runner" /\ ~op.done}) <= 1

\* C4: with no lastVersion stored at start, no step is ever executed and
\* onReady() resolves, in the constructor's callback, with an absent value.
C4_FreshInstall ==
    ~Upgrade =>
        /\ executed = <<>>
        /\ pc # "version" => Ready
        /\ Ready => isNewDefer.value \in {Null, Undefined}

C4_Witness == ~Upgrade /\ Ready /\ inflight # {}

\* C5: once a step's promise has rejected, onReady() is not resolved and,
\* for the rest of the process, stays unresolved and no step is started.
C5_RejectionAborts ==
    /\ [](pc = "rejected" => ~Ready)
    /\ [][(pc = "rejected" /\ epoch' = epoch)
            => (pc' = "rejected" /\ ~isNewDefer'.resolved
                /\ executed' = executed)]_vars

C5_Witness == pc = "rejected" /\ Len(executed) < Len(versions) /\ callerOps = 0

\* C6: on an upgrade start the stored lastVersion is the current version
\* from the constructor's callback (before the first step starts) up to the
\* state in which onReady() resolves.
C6_LastVersionCurrentUntilReady ==
    (Upgrade /\ pc \notin {"version", "rejected"} /\ callerOps = 0)
        => getItem(store, "lastVersion") = Str(WavesApp_version)

\* C7: after a crash that follows the start of a step, the restarted runner
\* reads the current version as prior and executes no step the crashed
\* process had started.
C7_NoRepeatAfterCrash ==
    (epoch > 0 /\ crashedSteps # {}) =>
        /\ SeqRange(executed) \cap crashedSteps = {}
        /\ pc # "version" => version = Str(WavesApp_version)

\* C8: onReady() is resolved at most once, with the lastVersion value stored
\* before the start, and when the callbacks and the backend keep running it
\* is eventually resolved unless a step rejected.
C8_ResolvesOnceWithPrior ==
    /\ [](/\ resolveCalls <= 1
          /\ Ready => /\ resolveCalls = 1
                      /\ IF Upgrade THEN isNewDefer.value = storedAtStart
                         ELSE isNewDefer.value = hostAbsent)
    /\ []<>(Ready \/ pc = "rejected")

C8_Witness == Ready /\ Upgrade /\ epoch = 1 /\ Len(completed) = 3

\* C9: no operation the runner started takes effect after a save or clear
\* of a caller who waited for onReady().
C9_CallerNeverOvertaken == ~runnerAfterCaller

\* C10: a load(k) that follows a save(k, v) of a non-string value v yields a
\* value equal to v.
C10_SaveLoadRoundTrip ==
    (/\ callerLast.kind = "read" /\ callerLast.state = "done"
     /\ callerPrev.kind = "write" /\ callerPrev.key = callerLast.key
     /\ typeof(callerPrev.value) # "string")
        => callerLast.result = callerPrev.value

C10_Witness ==
    /\ callerLast.kind = "read" /\ callerLast.state = "done"
    /\ callerPrev.kind = "write" /\ callerPrev.key = callerLast.key
    /\ callerPrev.value = UserListData
    /\ backend = "bridge"

\* C11: a load(k) that follows a save(k, s) of a string s that is not valid
\* JSON settles and yields s itself.
C11_RawStringRoundTrip ==
    (/\ callerLast.kind = "read" /\ callerPrev.kind = "write"
     /\ callerPrev.key = callerLast.key
     /\ typeof(callerPrev.value) = "string"
     /\ ~JSONparse(callerPrev.value.v).ok)
        => /\ callerLast.state = "done" => callerLast.result = callerPrev.value
           /\ callerLast.state = "sent" =>
                 \E op \in inflight : op.owner = "caller" /\ op.kind = "read"

C11_Witness ==
    /\ callerLast.kind = "read" /\ callerLast.state = "done"
    /\ callerPrev.kind = "write" /\ callerPrev.key = callerLast.key
    /\ callerPrev.value = Str(<<"{">>)
    /\ callerLast.result = Str(<<"{">>)

GatewaySteps == {V100beta35, V100beta40}

\* C13: when a gateway-insertion step has run twice in a row, the second run
\* has left the storage as the first run left it.
C13_GatewayIdempotent ==
    (/\ Len(completed) >= 2
     /\ executed = completed
     /\ completed[Len(completed)] \in GatewaySteps
     /\ completed[Len(completed) - 1] = completed[Len(completed)])
        => store = stepStart

C13_Witness ==
    /\ versions = <<V100beta35, V100beta35>>
    /\ completed = versions
    /\ "userList" \in DOMAIN store
    /\ store["userList"] \notin
          {StoredValue(l) : l \in {UserListData, UserListOther, Arr(<<>>)}}

\* The value stored under key in the map st, as load would yield it
Stored(st, key) == parseOrRaw(Str(st[key]))

\* The last step called has completed, and it is step v
LastCompleted(v) ==
    /\ completed # <<>>
    /\ executed = completed
    /\ completed[Len(completed)] = v

GatewayOf(v) == IF v = V100beta35 THEN DASH ELSE XMR

\* user.settings.pinnedAssetIdList
Pinned(user) == GetProp(GetProp(user, K("settings")), K("pinnedAssetIdList"))

\* A user record with its pinned-asset list blanked, the rest as it is
PinnedBlanked(user) ==
    Obj(PutProp(user.v, K("settings"),
                Obj(PutProp(GetProp(user, K("settings")).v,
                            K("pinnedAssetIdList"), Null))))

\* Every key but userList is stored as it was when the step was called
OtherKeysKept ==
    /\ DOMAIN store = DOMAIN stepStart
    /\ \A k \in DOMAIN store \ {"userList"} : store[k] = stepStart[k]

\* C16: when a gateway-insertion step has completed on a stored user list,
\* the list has the same records in the same order; a record whose pinned
\* list existed without the gateway has it appended at the end and is
\* otherwise as it was; every other record and every other key is as it was.
C16_GatewayFrame ==
    \A v \in GatewaySteps :
        (LastCompleted(v) /\ "userList" \in DOMAIN stepStart) =>
            LET old == Stored(stepStart, "userList").v
                new == Stored(store, "userList").v
            IN  /\ OtherKeysKept
                /\ Len(new) = Len(old)
                /\ \A i \in 1..Len(old) :
                      IF Pinned(old[i]).t = "arr"
                         /\ GatewayOf(v) \notin SeqRange(Pinned(old[i]).v)
                      THEN /\ Pinned(new[i]) =
                                Arr(Append(Pinned(old[i]).v, GatewayOf(v)))
                           /\ PinnedBlanked(new[i]) = PinnedBlanked(old[i])
                      ELSE new[i] = old[i]

C16_Witness ==
    /\ LastCompleted(V100beta40)
    /\ "userList" \in DOMAIN stepStart
    /\ stepStart["userList"] = StoredValue(UserListData)
    /\ Pinned(Stored(store, "userList").v[3]) =
          Arr(<<Str(<<"WAVES">>), DASH, XMR>>)

BetaSteps == {V100beta23, V100beta35, V100beta40, V100beta47}

\* The settings field a beta step targets
TargetOf(v) ==
    CASE v = V100beta23 -> K("lastOpenVersion")
      [] v = V100beta47 -> K("dex")
      [] OTHER -> K("pinnedAssetIdList")

\* The own settings of a user record but the field `name'
SettingsBut(user, name) ==
    LET own == GetProp(user, K("settings"))
    IN  IF own.t = "obj" THEN DelProp(own.v, name) ELSE <<>>

\* The frame of a beta step that has completed on a stored user list
BetaFrame(v) ==
    LET old == Stored(stepStart, "userList").v
        new == Stored(store, "userList").v
    IN  /\ OtherKeysKept
        /\ Len(new) = Len(old)
        /\ \A i \in 1..Len(old) :
              /\ DelProp(new[i].v, K("settings")) = DelProp(old[i].v, K("settings"))
              /\ SettingsBut(new[i], TargetOf(v)) = SettingsBut(old[i], TargetOf(v))

\* C18: a beta step that has completed on a stored user list has kept the
\* records, their order, their fields other than settings and their
\* settings other than the one it targets, and every other key; and a beta
\* step called while userList is absent does not reject.
C18_BetaStepsPreserve ==
    \A v \in BetaSteps :
        /\ (LastCompleted(v) /\ "userList" \in DOMAIN stepStart) => BetaFrame(v)
        /\ (executed # <<>> /\ executed[Len(executed)] = v
             /\ "userList" \notin DOMAIN stepStart) => pc # "rejected"

\* The constructor's write of lastVersion is in flight: the host has not
\* performed it
VersionWritePending ==
    \E op \in inflight :
        op.owner = "runner" /\ op.kind = "write" /\ op.key = "lastVersion"

\* A storage operation of a migration step has taken effect in the backend
StepOperationPerformed ==
    \/ pc \in {"clear", "save"}
    \/ completed # <<>>
    \/ pc = "load" /\ \E op \in inflight : op.owner = "runner" /\ op.done

\* C17: no storage operation of a migration step takes effect while the
\* constructor's lastVersion write has not.
C17_VersionWrittenBeforeSteps ==
    ~(VersionWritePending /\ StepOperationPerformed)

\* The shim and the reference store hold the same names with the same texts,
\* and the shim lists every name once
ShimHoldsSame ==
    /\ SeqRange(ObjectKeys(shimData)) = DOMAIN refStore
    /\ Len(ObjectKeys(shimData)) = Cardinality(DOMAIN refStore)
    /\ \A k \in DOMAIN refStore : storage_getItem(shimData, k) = Str(refStore[k])

\* C15: after every sequence of setItem, getItem, removeItem, clear, key(n)
\* and length, the in-memory shim has returned what a reference string
\* key/value store returns and holds the same items: an absent key reads as
\* null, values are stored as strings, length counts the stored keys.
C15_ShimMatchesReference == shimResult \in refResults /\ ShimHoldsSame

Resolved(kind) == assetsCall.kind = kind /\ assetsCall.state = "resolved"

\* The balance balanceList owes the id: zero without an entry in the list
\* the cache answered with or when the computed balance is negative, else
\* the computed balance
BalanceOwed(id) ==
    IF ~\E i \in 1..Len(assetsCall.used) : assetsCall.used[i].id = id
    THEN Money(id, 0)
    ELSE LET last == CHOOSE i \in 1..Len(assetsCall.used) :
                        /\ assetsCall.used[i].id = id
                        /\ \A j \in (i + 1)..Len(assetsCall.used) :
                              assetsCall.used[j].id # id
             tokens == assetsCall.used[last].amount.tokens
                          - assetsCall.pending[id]
         IN  Money(id, IF tokens < 0 THEN 0 ELSE tokens)

\* C19: balanceList resolves to one entry per requested id in the order
\* requested; an id without an entry in the cached balance list gets a zero
\* balance, a negative computed balance is replaced by zero tokens of that
\* asset, and no balance returned by balanceList, balance or userBalances
\* is negative.
C19_BalanceListEntries ==
    /\ Resolved("balanceList") =>
          /\ Len(assetsCall.result) = Len(assetsCall.ids)
          /\ \A i \in 1..Len(assetsCall.ids) :
                /\ assetsCall.result[i].id = assetsCall.ids[i]
                /\ assetsCall.result[i].balance = BalanceOwed(assetsCall.ids[i])
                /\ assetsCall.result[i].balance.tokens >= 0
    /\ Resolved("balance") =>
          /\ assetsCall.result.id = assetsCall.ids[1]
          /\ assetsCall.result.balance.tokens >= 0
    /\ Resolved("userBalances") =>
          /\ Len(assetsCall.result) = Len(assetsCall.used)
          /\ \A i \in 1..Len(assetsCall.used) :
                assetsCall.result[i].balance.tokens >= 0

\* balanceList has resolved for an id without an entry and an id whose
\* computed balance is negative
C19_Witness ==
    /\ Resolved("balanceList")
    /\ assetsCall.ids = <<"EUR", "WAVES">>
    /\ assetsCall.used = <<BalanceEntry("BTC", 1), BalanceEntry("WAVES", 0)>>
    /\ assetsCall.pending["WAVES"] = 1
    /\ assetsCall.result[2].balance = Money("WAVES", 0)

\* C20: no call of balance, balanceList or userBalances reads _balanceCache
\* before the callback of onLogin has created it, however the login and the
\* calls interleave.
C20_CacheExistsWhenUsed == ~cacheReadEarly

=============================================================================
